---- MODULE Spec2Model ----
(***************************************************************************)
(* The automatic energy-deficit control loop of the energy manager:        *)
(* consumption/tasks.py check_and_control_devices, with the stores it      *)
(* reads and writes (Device, EnergyManagementConfig, ConsumptionReading,   *)
(* ConsumptionAlert) and the requests that change them between passes.     *)
(*                                                                         *)
(* Energy values are whole kWh.  A percentage is kept as the exact         *)
(* fraction <<numerator, denominator>> the code's float division stands    *)
(* for, and compared by cross-multiplication.                              *)
(***************************************************************************)
EXTENDS Integers, Sequences, FiniteSets, TLC

(* ------------------------------ bounds --------------------------------- *)
NumDevices == 2
MaxTime == 1

DeviceIds == 1..NumDevices
ConfigIds == {1}
Times == 1..MaxTime
Consumptions == {0, 2, 3}
Productions == {0, 4, 5}
DefaultThreshold == 100
DefaultMaxConsumption == 10
Thresholds == {DefaultThreshold, 150}
\* The rows of the configuration table where several configurations are kept.
ConfigRows == {1, 2, 3}
\* What the active solar panels produce in one update: no active panel, or one.
PanelReadings == {<<>>} \cup {<<p>> : p \in Productions}

(* ------------------------------ values --------------------------------- *)
NoDevice == 0
NoTimestamp == 0
NoReading == [exists |-> FALSE]
NoConfig == [exists |-> FALSE]
NoProduction == [exists |-> FALSE]
NoRun == [status |-> "none"]
NoReport == [status |-> "none"]
NoException == "none"
NoFault == "none"
Idle == [pc |-> "idle"]
NoLog == "not kept"

\* What runs a pass: the worker of the periodic schedule and a request (or the
\* command) that runs one on demand.
Workers == {"beat", "request"}

\* Two requests that write the configuration.
Requests == {"first", "second"}

\* The steps of a pass at which the data store may fail.
Faults ==
    {"get_active_config", "latest_reading", "active_devices",
     "create_deficit_alert", "atomic_block"}

ALTA == "alta"
MEDIA == "media"
BAIXA == "baixa"

\* The kinds of device the roster is drawn from: priority, is_controllable
\* and device_type are set when a device is registered.
Profiles ==
    << [priority |-> ALTA, is_controllable |-> TRUE, device_type |-> "tuya"],
       [priority |-> MEDIA, is_controllable |-> TRUE, device_type |-> "tuya"],
       [priority |-> BAIXA, is_controllable |-> TRUE, device_type |-> "tuya"],
       [priority |-> BAIXA, is_controllable |-> TRUE, device_type |-> "smart"],
       [priority |-> BAIXA, is_controllable |-> FALSE, device_type |-> "manual"] >>

\* A Device row with the defaults of its fields.
Device(p) ==
    [priority |-> p.priority,
     is_controllable |-> p.is_controllable,
     device_type |-> p.device_type,
     last_consumption |-> 0,
     max_consumption |-> DefaultMaxConsumption,
     is_active |-> TRUE,
     auto_controlled |-> FALSE,
     auto_control_timestamp |-> NoTimestamp]

\* An EnergyManagementConfig row.
EnergyManagementConfig(active, enabled, threshold) ==
    [is_active |-> active,
     auto_control_enabled |-> enabled,
     deficit_threshold_percentage |-> threshold]

VARIABLES
    devices,          \* Device table: id -> row
    configs,          \* EnergyManagementConfig table: id -> row
    latest_reading,   \* the most recent ConsumptionReading (its production), or NoReading
    alerts,           \* ConsumptionAlert table, in order of creation
    run,              \* the pass that has just returned, or NoRun
    energy_production, \* the most recent EnergyProduction rows (their total), or NoProduction
    passes,           \* worker -> what its pass in progress has read, or Idle
    saves,            \* request -> the configuration save it is in the middle of, or Idle
    updates,          \* request -> the device instance its update_consumption holds, or Idle
    last_change       \* history: device -> who last changed its is_active, or NoLog

vars == <<devices, configs, latest_reading, alerts, run, energy_production, passes, saves,
          updates, last_change>>

\* The passes, saves and updates in progress, which an operation that runs
\* from its start to its end leaves alone, and the history.
in_progress == <<passes, saves, updates, last_change>>

(* ------------------------- sequences of ids ---------------------------- *)
RECURSIVE IdsFrom(_, _)
\* The ids of S in ascending order, starting at i: the order of a queryset.
IdsFrom(i, S) ==
    IF i > NumDevices THEN <<>>
    ELSE IF i \in S THEN <<i>> \o IdsFrom(i + 1, S)
    ELSE IdsFrom(i + 1, S)

RECURSIVE SumSeq(_)
SumSeq(xs) == IF xs = <<>> THEN 0 ELSE Head(xs) + SumSeq(Tail(xs))

RECURSIVE SumConsumption(_, _)
SumConsumption(devs, ids) ==
    IF ids = <<>> THEN 0
    ELSE devs[Head(ids)].last_consumption + SumConsumption(devs, Tail(ids))

(* --------------------------- the stores -------------------------------- *)
\* The rows of EnergyManagementConfig.objects.filter(is_active=True); a row
\* not yet created is NoConfig.
active_config_ids(cfgs) ==
    {c \in DOMAIN cfgs : cfgs[c] # NoConfig /\ cfgs[c].is_active}

\* EnergyManagementConfig.get_active_config: filter(is_active=True).first(),
\* the table being ordered by -created_at (a later row has a larger id).
get_active_config(cfgs) ==
    LET active == active_config_ids(cfgs)
    IN  IF active = {} THEN NoConfig
        ELSE cfgs[CHOOSE c \in active : \A o \in active : o <= c]

\* filter(is_active=True).update(is_active=False)
deactivate_all(cfgs) ==
    [o \in DOMAIN cfgs |->
        IF cfgs[o] # NoConfig THEN [cfgs[o] EXCEPT !.is_active = FALSE] ELSE cfgs[o]]

\* filter(is_active=True).exclude(id=c).update(is_active=False)
deactivate_others(cfgs, c) ==
    [o \in DOMAIN cfgs |-> IF o = c THEN cfgs[o] ELSE deactivate_all(cfgs)[o]]

\* super().save(): the row is written.
Model_save(cfgs, c, row) == [cfgs EXCEPT ![c] = row]

\* A save that writes its row and leaves the other rows as they are.
EnergyManagementConfig_save_only(cfgs, c, row) == Model_save(cfgs, c, row)

\* EnergyManagementConfig.save of row as configuration c: saving an active
\* row first deactivates every active row.
EnergyManagementConfig_save(cfgs, c, row) ==
    LET others == IF row.is_active THEN deactivate_all(cfgs) ELSE cfgs
    IN  Model_save(others, c, row)

\* What is kept of a request that wrote the configuration c and has just
\* returned: whether it saved c as active, and the other rows that were
\* active before.
saved_run(cfgs, c, row) ==
    [status |-> "saved", config |-> c, saved_active |-> row.is_active,
     others_active |-> active_config_ids(cfgs) \ {c}]

\* A ConsumptionAlert row.
ConsumptionAlert(device, alert_type, severity) ==
    [device |-> device, alert_type |-> alert_type, severity |-> severity]

\* ConsumptionAlert.device is a ForeignKey declared without null=True: the
\* column is NOT NULL and an insert with device=None raises IntegrityError.
ConsumptionAlert_insertable(alert) == alert.device # NoDevice

\* Device.objects.filter(is_active=True), in the order of the queryset.
active_devices(devs) == IdsFrom(1, {d \in DeviceIds : devs[d].is_active})

\* active_devices.filter(priority=DevicePriority.BAIXA)
baixa_devices(devs) ==
    IdsFrom(1, {d \in DeviceIds : devs[d].is_active /\ devs[d].priority = BAIXA})

\* active_devices.filter(priority=DevicePriority.MEDIA)
media_devices(devs) ==
    IdsFrom(1, {d \in DeviceIds : devs[d].is_active /\ devs[d].priority = MEDIA})

(* ------------------------ the transport -------------------------------- *)
\* The exceptions a call to the device can end in.
TransportFailures == {"ConnectionError", "TimeoutError"}

\* The statements under the try of control_tuya_device, the call to the
\* device ending in failure (NoException: it goes through): a device that is
\* not a Tuya device is answered False before any call; the instance is
\* only read.
tuya_try(device, turn_on, failure) ==
    IF device.device_type # "tuya"
    THEN [raised |-> FALSE, value |-> FALSE, device |-> device]
    ELSE IF failure # NoException
    THEN [raised |-> TRUE, exception |-> failure, device |-> device]
    ELSE [raised |-> FALSE, value |-> TRUE, device |-> device]

\* A function without its except clause.
tuya_except_nothing(exception) == FALSE

\* except Exception as e: return False
tuya_except_Exception(exception) == exception \in TransportFailures

\* control_tuya_device(device, turn_on), the call to the device ending in
\* failure: the value returned, whether an exception leaves the function,
\* and the instance as the function leaves it.
control_tuya_device_under(failure, device, turn_on) ==
    LET body == tuya_try(device, turn_on, failure)
    IN  IF ~body.raised
        THEN [propagated |-> FALSE, value |-> body.value, device |-> body.device]
        ELSE IF tuya_except_Exception(body.exception)
        THEN [propagated |-> FALSE, value |-> FALSE, device |-> body.device]
        ELSE [propagated |-> TRUE, exception |-> body.exception, device |-> body.device]

\* control_tuya_device as it is shipped: the control is simulated (a log
\* line and a sleep), so that the call to the device goes through.
control_tuya_device(device, turn_on) ==
    control_tuya_device_under(NoException, device, turn_on).value

(* ------------------- check_and_control_devices ------------------------- *)
\* A sum that forgets the is_active filter.
total_consumption_all(devs) == SumConsumption(devs, IdsFrom(1, DeviceIds))

\* sum(device.last_consumption for device in active_devices)
total_consumption(devs) == SumConsumption(devs, active_devices(devs))

\* (total_production / total_consumption) * 100, or 100.0 without consumption.
production_percentage(total_production, consumption) ==
    IF consumption > 0 THEN <<total_production * 100, consumption>>
    ELSE <<100, 1>>

\* A comparison with the sign reversed.
is_deficit_reversed(percentage, deficit_threshold) ==
    percentage[1] > deficit_threshold * percentage[2]

\* A comparison that takes equality for a deficit.
is_deficit_or_equal(percentage, deficit_threshold) ==
    percentage[1] <= deficit_threshold * percentage[2]

\* production_percentage < deficit_threshold
is_deficit(percentage, deficit_threshold) ==
    percentage[1] < deficit_threshold * percentage[2]

\* An alert hung on the first active device instead of on none.
deficit_alert_device_first(devs) ==
    IF active_devices(devs) = <<>> THEN NoDevice ELSE Head(active_devices(devs))

\* The device the deficit_detected alert is created for: device=None.
deficit_alert_device(devs) == NoDevice

\* One thing the loop over baixa_devices does for device d: the call of the
\* transport has returned, the device has been saved, or its alert has been
\* created.
event(kind, d) == [kind |-> kind, device |-> d]

\* The body of the loop over baixa_devices, for device d at time now.
\* st holds what the pass has written so far, its two counters, and what
\* the loop has done, in the order of its statements.
control_baixa_device(st, d, now) ==
    LET device == st.devices[d]
        success == control_tuya_device(device, FALSE)
        called == [st EXCEPT !.calls =
                       Append(@, [device |-> d, turn_on |-> FALSE, success |-> success]),
                             !.events = Append(@, event("call", d))]
    IN  IF device.is_controllable
        THEN IF success
             THEN [called EXCEPT
                     !.devices[d].is_active = FALSE,
                     !.devices[d].auto_controlled = TRUE,
                     !.devices[d].auto_control_timestamp = now,
                     !.alerts = Append(@, ConsumptionAlert(d, "device_auto_controlled", "medium")),
                     !.alerts_created = @ + 1,
                     !.devices_controlled = @ + 1,
                     !.events = @ \o <<event("save", d), event("alert", d)>>]
             ELSE called
        ELSE [st EXCEPT
                !.devices[d].auto_controlled = TRUE,
                !.devices[d].auto_control_timestamp = now,
                !.alerts = Append(@, ConsumptionAlert(d, "device_auto_controlled", "medium")),
                !.alerts_created = @ + 1,
                !.devices_controlled = @ + 1,
                !.events = @ \o <<event("save", d), event("alert", d)>>]

RECURSIVE baixa_loop(_, _, _)
baixa_loop(st, ids, now) ==
    IF ids = <<>> THEN st
    ELSE baixa_loop(control_baixa_device(st, Head(ids), now), Tail(ids), now)

\* The body of the loop over media_devices.
alert_media_device(st, d) ==
    [st EXCEPT
        !.alerts = Append(@, ConsumptionAlert(d, "medium_priority_action_needed", "high")),
        !.alerts_created = @ + 1]

RECURSIVE media_loop(_, _)
media_loop(st, ids) ==
    IF ids = <<>> THEN st
    ELSE media_loop(alert_media_device(st, Head(ids)), Tail(ids))

\* A branch that switches every controllable BAIXA device over, whatever
\* state it is in, and creates no alert.
deficit_branch_switching_over(st, now) ==
    [st EXCEPT !.devices =
        [d \in DeviceIds |->
            IF @[d].priority = BAIXA /\ @[d].is_controllable
            THEN [@[d] EXCEPT !.is_active = ~@, !.auto_controlled = TRUE,
                              !.auto_control_timestamp = now]
            ELSE @[d]]]

\* The branch taken on a deficit: the deficit_detected alert, then, in one
\* transaction, the BAIXA devices and the MEDIA devices.  raised tells that
\* the insert of the deficit_detected alert raised.
deficit_branch(st, now) ==
    LET alert == ConsumptionAlert(deficit_alert_device(st.devices), "deficit_detected", "high")
        st1 == [st EXCEPT !.alerts = Append(@, alert), !.alerts_created = @ + 1]
        st2 == baixa_loop(st1, baixa_devices(st1.devices), now)
        st3 == media_loop(st2, media_devices(st2.devices))
        writes == st3.devices # st1.devices \/ st3.alerts # st1.alerts
    IN  IF st.fault = "create_deficit_alert"
        THEN [st EXCEPT !.raised = TRUE, !.exception = "OperationalError"]
        ELSE IF ~ConsumptionAlert_insertable(alert)
        THEN [st EXCEPT !.raised = TRUE, !.exception = "IntegrityError"]
        ELSE IF st.fault = "atomic_block" /\ writes
        THEN \* transaction.atomic() undoes the writes made inside the block
             [st1 EXCEPT !.raised = TRUE, !.exception = "OperationalError",
                         !.calls = st3.calls, !.events = st3.events]
        ELSE st3

\* A test that forgets auto_control_enabled.
auto_control_off_no_config_only(config) == config = NoConfig

\* not config or not config.auto_control_enabled
auto_control_off(config) ==
    config = NoConfig \/ ~config.auto_control_enabled

\* The report returned without an active configuration with auto control.
skipped_config_report ==
    [status |-> "skipped",
     message |-> "Auto control is disabled or no active config found",
     devices_controlled |-> 0, alerts_created |-> 0]

\* if not latest_reading
no_readings(reading) == reading = NoReading

\* A report that takes the missing readings for a failure.
skipped_readings_report_as_error ==
    [status |-> "error", message |-> "No consumption readings found",
     devices_controlled |-> 0, alerts_created |-> 0]

\* The report returned when there is no reading.
skipped_readings_report ==
    [status |-> "skipped", message |-> "No consumption readings found",
     devices_controlled |-> 0, alerts_created |-> 0]

\* The report the except clause returns.
error_report ==
    [status |-> "error", message |-> "Error in device control check",
     devices_controlled |-> 0, alerts_created |-> 0]

success_report(percentage, threshold, deficit, st, now) ==
    [status |-> "success", message |-> "Device control check completed",
     production_percentage |-> percentage,
     deficit_threshold |-> threshold,
     is_deficit |-> deficit,
     devices_controlled |-> st.devices_controlled,
     alerts_created |-> st.alerts_created,
     timestamp |-> now]

\* An except clause that catches the integrity errors only.
except_IntegrityError(exception) == exception = "IntegrityError"

\* except Exception: every exception the body raises is an Exception.
except_Exception(exception) ==
    exception \in {"IntegrityError", "OperationalError", "AttributeError"}

\* The end of a pass whose body raised: the except clause returns the error
\* report, and what it does not catch reaches the caller.
except_clause(out) ==
    IF except_Exception(out.exception)
    THEN out @@ [report |-> error_report, propagated |-> FALSE]
    ELSE out @@ [report |-> NoReport, propagated |-> TRUE]

\* The first part of a pass, the data store failing at the step fault: the
\* active configuration, the latest reading and the active devices are read
\* and the deficit is decided.  outcome tells whether the pass returns here,
\* raises here or goes on.
pass_reads(fault, devs, cfgs, reading) ==
    LET config == get_active_config(cfgs)
        total_production == reading.production_kwh
        consumption == total_consumption(devs)
        percentage == production_percentage(total_production, consumption)
        deficit_threshold == config.deficit_threshold_percentage
        raising(exception) ==
            [outcome |-> "raises", exception |-> exception,
             locals |-> [computed |-> FALSE]]
        returning(report) ==
            [outcome |-> "returns", report |-> report,
             locals |-> [computed |-> FALSE]]
    IN  IF fault = "get_active_config" THEN raising("OperationalError")
        ELSE IF auto_control_off(config) THEN returning(skipped_config_report)
        ELSE IF fault = "latest_reading" THEN raising("OperationalError")
        ELSE IF no_readings(reading) THEN returning(skipped_readings_report)
        ELSE IF reading = NoReading
        THEN \* latest_reading.production_kwh of None raises
             raising("AttributeError")
        ELSE IF fault = "active_devices" THEN raising("OperationalError")
        ELSE [outcome |-> "goes on",
              locals |-> [computed |-> TRUE,
                          total_production |-> total_production,
                          total_consumption |-> consumption,
                          production_percentage |-> percentage,
                          deficit_threshold |-> deficit_threshold,
                          is_deficit |-> is_deficit(percentage, deficit_threshold)]]

\* The rest of a pass that has read seen, on the tables devs and store as
\* they are by then: the deficit branch and the report.
pass_writes(fault, seen, devs, store, now) ==
    LET st0 == [devices |-> devs, alerts |-> store, calls |-> <<>>, events |-> <<>>,
                devices_controlled |-> 0, alerts_created |-> 0,
                raised |-> FALSE, exception |-> NoException, fault |-> fault]
        st == IF seen.locals.is_deficit THEN deficit_branch(st0, now) ELSE st0
    IN  IF seen.outcome = "raises"
        THEN except_clause([st0 EXCEPT !.raised = TRUE, !.exception = seen.exception]
                           @@ [locals |-> seen.locals])
        ELSE IF seen.outcome = "returns"
        THEN st0 @@ [locals |-> seen.locals, report |-> seen.report,
                     propagated |-> FALSE]
        ELSE IF st.raised
        THEN except_clause(st @@ [locals |-> seen.locals])
        ELSE st @@ [locals |-> seen.locals,
                    report |-> success_report(seen.locals.production_percentage,
                                              seen.locals.deficit_threshold,
                                              seen.locals.is_deficit, st, now),
                    propagated |-> FALSE]

\* What one call of check_and_control_devices at time now leaves, the data
\* store failing at the step fault: the tables, the transport calls it made,
\* the values it computed and its report.
control_pass_under(fault, devs, cfgs, reading, store, now) ==
    pass_writes(fault, pass_reads(fault, devs, cfgs, reading), devs, store, now)

\* The same while the data store answers.
control_pass(devs, cfgs, reading, store, now) ==
    control_pass_under(NoFault, devs, cfgs, reading, store, now)

(* ------------------------------ actions -------------------------------- *)
\* The history once an operation of who has taken the Device table from
\* before to after: who is noted for each device whose is_active differs.
\* A specification that starts the history at NoLog keeps none.
logged(log, before, after, who) ==
    [d \in DeviceIds |->
        IF log[d] # NoLog /\ after[d].is_active # before[d].is_active
        THEN who ELSE log[d]]

\* What is kept of a pass that started from the tables devs and store.
returned_run(devs, store, out) ==
    [status |-> IF out.propagated THEN "propagated" ELSE "returned",
     devices_before |-> devs,
     alerts_before |-> store,
     calls |-> out.calls,
     events |-> out.events,
     raised |-> out.raised,
     exception |-> out.exception,
     locals |-> out.locals,
     report |-> out.report]

\* One periodic or on-demand run of the controller.
check_and_control_devices ==
    \E now \in Times :
        LET out == control_pass(devices, configs, latest_reading, alerts, now)
        IN  /\ devices' = out.devices
            /\ alerts' = out.alerts
            /\ run' = returned_run(devices, alerts, out)
            /\ last_change' = logged(last_change, devices, out.devices, "controller")
            /\ UNCHANGED <<configs, latest_reading, energy_production,
                           passes, saves, updates>>

\* A run of the controller during which the data store fails at one step.
check_and_control_devices_failing ==
    \E now \in Times, fault \in Faults :
        LET out == control_pass_under(fault, devices, configs, latest_reading, alerts, now)
        IN  /\ devices' = out.devices
            /\ alerts' = out.alerts
            /\ run' = returned_run(devices, alerts, out)
            /\ last_change' = logged(last_change, devices, out.devices, "controller")
            /\ UNCHANGED <<configs, latest_reading, energy_production,
                           passes, saves, updates>>

\* A worker starts a pass: nothing in the code makes it wait for a pass in
\* progress.
begin_pass(w) ==
    /\ passes[w] = Idle
    /\ passes' = [passes EXCEPT ![w] =
                      [pc |-> "decided",
                       seen |-> pass_reads(NoFault, devices, configs, latest_reading)]]
    /\ run' = NoRun
    /\ UNCHANGED <<devices, configs, latest_reading, alerts, energy_production,
                   saves, updates, last_change>>

\* The worker's pass does its writes and returns.
end_pass(w) ==
    /\ passes[w] # Idle
    /\ \E now \in Times :
          LET out == pass_writes(NoFault, passes[w].seen, devices, alerts, now)
          IN  /\ devices' = out.devices
              /\ alerts' = out.alerts
              /\ run' = returned_run(devices, alerts, out)
              /\ last_change' = logged(last_change, devices, out.devices, "controller")
    /\ passes' = [passes EXCEPT ![w] = Idle]
    /\ UNCHANGED <<configs, latest_reading, energy_production, saves, updates>>

\* The devices the loop over baixa_devices has saved.
saved_devices(out) ==
    {out.events[i].device : i \in {j \in 1..Len(out.events) : out.events[j].kind = "save"}}

\* The next step of the pass p in progress, on the tables devs and store as
\* they are by now.  A pass that has decided either returns (no deficit, or
\* the insert of the deficit_detected alert raises) or enters the loops: the
\* alert is in the table and the queryset baixa_devices is evaluated, p
\* holding the rows from then on.  A pass in the loops saves the rows it
\* holds, each as a whole (device.save() names no field), adds the alerts of
\* the devices and returns.
pass_stepped(p, devs, store, out) ==
    LET decided == p.pc = "decided"
        before == IF decided THEN store ELSE p.store
        added == SubSeq(out.alerts, Len(before) + 1, Len(out.alerts))
        entering == decided /\ ~out.raised /\ added # <<>>
    IN  IF entering
        THEN [returns |-> FALSE,
              pass |-> [pc |-> "in loops", seen |-> p.seen, rows |-> devs, store |-> store],
              devices |-> devs,
              alerts |-> Append(store, Head(added))]
        ELSE [returns |-> TRUE,
              pass |-> Idle,
              devices |-> [d \in DeviceIds |->
                              IF d \in saved_devices(out) THEN out.devices[d] ELSE devs[d]],
              alerts |-> store \o (IF decided THEN added ELSE Tail(added)),
              out |-> out]

\* The step, from what the rest of the pass does with the rows and the
\* alerts the pass goes by.
pass_step(p, devs, store, now) ==
    pass_stepped(p, devs, store,
                 pass_writes(NoFault, p.seen,
                             IF p.pc = "decided" THEN devs ELSE p.rows,
                             IF p.pc = "decided" THEN store ELSE p.store, now))

\* The worker's pass goes one step on.
continue_pass(w) ==
    /\ passes[w] # Idle
    /\ \E now \in Times :
          \E step \in {pass_step(passes[w], devices, alerts, now)} :
              /\ devices' = step.devices
              /\ alerts' = step.alerts
              /\ passes' = [passes EXCEPT ![w] = step.pass]
              /\ run' = IF step.returns THEN returned_run(devices, alerts, step.out)
                        ELSE NoRun
              /\ last_change' = logged(last_change, devices, step.devices, "controller")
    /\ UNCHANGED <<configs, latest_reading, energy_production, saves, updates>>

\* The row instance with the fields of data set on it.
with_fields(instance, data) ==
    [f \in DOMAIN instance |-> IF f \in DOMAIN data THEN data[f] ELSE instance[f]]

\* EnergyManagementConfigSerializer.create with the validated row: the
\* active rows are deactivated if the new row is active, and the new row is
\* saved as the next row of the table.
serializer_create(row) ==
    /\ \E c \in DOMAIN configs : configs[c] = NoConfig
    /\ LET c == CHOOSE n \in DOMAIN configs :
                    /\ configs[n] = NoConfig
                    /\ \A o \in DOMAIN configs : configs[o] = NoConfig => n <= o
           cleared == IF row.is_active THEN deactivate_all(configs) ELSE configs
       IN  /\ configs' = EnergyManagementConfig_save(cleared, c, row)
           /\ run' = saved_run(configs, c, row)
    /\ UNCHANGED <<devices, latest_reading, alerts, energy_production, in_progress>>

\* EnergyManagementConfigSerializer.update of configuration c with the
\* validated fields data: the other active rows are deactivated if data
\* has is_active true, the fields are set and the row is saved.
serializer_update(c, data) ==
    /\ configs[c] # NoConfig
    /\ LET row == with_fields(configs[c], data)
           cleared == IF "is_active" \in DOMAIN data /\ data.is_active
                      THEN deactivate_others(configs, c) ELSE configs
       IN  /\ configs' = EnergyManagementConfig_save(cleared, c, row)
           /\ run' = saved_run(configs, c, row)
    /\ UNCHANGED <<devices, latest_reading, alerts, energy_production, in_progress>>

\* EnergyManagementConfigViewSet.activate of configuration c.
activate(c) ==
    /\ configs[c] # NoConfig
    /\ LET row == [configs[c] EXCEPT !.is_active = TRUE]
       IN  /\ configs' = EnergyManagementConfig_save(deactivate_all(configs), c, row)
           /\ run' = saved_run(configs, c, row)
    /\ UNCHANGED <<devices, latest_reading, alerts, energy_production, in_progress>>

\* EnergyManagementConfigViewSet.toggle_auto_control: 404 without an active
\* configuration; otherwise the flag is set on it and it is saved.
toggle_auto_control(auto_control_enabled) ==
    /\ IF active_config_ids(configs) = {}
       THEN UNCHANGED configs /\ run' = NoRun
       ELSE LET c == CHOOSE n \in active_config_ids(configs) :
                         \A o \in active_config_ids(configs) : o <= n
                row == [configs[c] EXCEPT !.auto_control_enabled = auto_control_enabled]
            IN  /\ configs' = EnergyManagementConfig_save(configs, c, row)
                /\ run' = saved_run(configs, c, row)
    /\ UNCHANGED <<devices, latest_reading, alerts, energy_production, in_progress>>

\* The first statement of EnergyManagementConfig.save in a request that
\* saves configuration c as active: the active rows are deactivated.
\* Nothing makes the request wait for a save in progress.
save_deactivate(r, c) ==
    /\ saves[r] = Idle
    /\ configs[c] # NoConfig
    /\ configs' = deactivate_all(configs)
    /\ saves' = [saves EXCEPT ![r] =
                    [pc |-> "deactivated", config |-> c,
                     row |-> [configs[c] EXCEPT !.is_active = TRUE]]]
    /\ run' = NoRun
    /\ UNCHANGED <<devices, latest_reading, alerts, energy_production, passes, updates, last_change>>

\* The second statement of that save: the request's own row is written.
save_write(r) ==
    /\ saves[r] # Idle
    /\ configs' = Model_save(configs, saves[r].config, saves[r].row)
    /\ saves' = [saves EXCEPT ![r] = Idle]
    /\ run' = NoRun
    /\ UNCHANGED <<devices, latest_reading, alerts, energy_production, passes, updates, last_change>>

\* DeviceViewSet.toggle_active
toggle_active(d) ==
    /\ devices' = [devices EXCEPT ![d].is_active = ~@]
    /\ run' = NoRun
    /\ last_change' = logged(last_change, devices, devices', "manual")
    /\ UNCHANGED <<configs, latest_reading, alerts, energy_production,
                   passes, saves, updates>>

\* A control request that stamps the time of the request.
control_fields_stamped(device, turn_on) ==
    [device EXCEPT !.is_active = turn_on, !.auto_controlled = FALSE,
                   !.auto_control_timestamp = MaxTime]

\* What DeviceViewSet.control sets on the instance before it saves it.
control_fields(device, turn_on) ==
    [device EXCEPT !.is_active = turn_on, !.auto_controlled = FALSE,
                   !.auto_control_timestamp = NoTimestamp]

\* What is kept of a control request: the device, the command and the
\* status code of the response.
controlled_run(d, turn_on, code) ==
    [status |-> "controlled", device |-> d, turn_on |-> turn_on, code |-> code,
     devices_before |-> devices]

\* DeviceViewSet.control with action 'on' or 'off': 400 for a device that is
\* neither controllable nor a Tuya device; a Tuya device is written once the
\* transport has answered True (500 otherwise); any other controllable
\* device is written at once.
control(d, action) ==
    LET device == devices[d]
        turn_on == action = "on"
        refused == ~device.is_controllable /\ device.device_type # "tuya"
        success == device.device_type = "tuya" => control_tuya_device(device, turn_on)
        code == IF refused THEN 400 ELSE IF success THEN 200 ELSE 500
    IN  /\ devices' = IF code = 200
                      THEN [devices EXCEPT ![d] = control_fields(device, turn_on)]
                      ELSE devices
        /\ run' = controlled_run(d, turn_on, code)
        /\ last_change' = logged(last_change, devices, devices', "manual")
        /\ UNCHANGED <<configs, latest_reading, alerts, energy_production,
                       passes, saves, updates>>

\* DeviceViewSet.update_consumption with a valid consumption
update_consumption(d, consumption) ==
    /\ devices' = [devices EXCEPT ![d].last_consumption = consumption]
    /\ run' = NoRun
    /\ UNCHANGED <<configs, latest_reading, alerts, energy_production, in_progress>>

\* update_consumption, its first statement: get_object() reads the row of
\* device d into an instance.
update_consumption_get_object(r, d, consumption) ==
    /\ updates[r] = Idle
    /\ updates' = [updates EXCEPT ![r] =
                       [pc |-> "read", device |-> d, instance |-> devices[d],
                        consumption |-> consumption]]
    /\ run' = NoRun
    /\ UNCHANGED <<devices, configs, latest_reading, alerts, energy_production,
                   passes, saves, last_change>>

\* The Device table after the request u has saved: device.save() names no
\* field and writes the whole instance, with the new last_consumption.
update_consumption_saved(devs, u) ==
    [devs EXCEPT ![u.device] = [u.instance EXCEPT !.last_consumption = u.consumption]]

\* update_consumption, its last statements: the instance is saved.
update_consumption_save(r) ==
    /\ updates[r] # Idle
    /\ devices' = update_consumption_saved(devices, updates[r])
    /\ updates' = [updates EXCEPT ![r] = Idle]
    /\ run' = NoRun
    /\ last_change' = logged(last_change, devices, devices', "update")
    /\ UNCHANGED <<configs, latest_reading, alerts, energy_production, passes, saves>>

\* ConsumptionReadingCreateSerializer.create: a new reading, which becomes
\* the most recent one, and the device's last consumption.
create_reading(d, consumption_kwh, production_kwh) ==
    /\ latest_reading' = [exists |-> TRUE, production_kwh |-> production_kwh]
    /\ devices' = [devices EXCEPT ![d].last_consumption = consumption_kwh]
    /\ run' = NoRun
    /\ UNCHANGED <<configs, alerts, energy_production, in_progress>>

\* A save of the configuration c through the model.
save_config(c, row) ==
    /\ configs' = EnergyManagementConfig_save(configs, c, row)
    /\ run' = NoRun
    /\ UNCHANGED <<devices, latest_reading, alerts, energy_production, in_progress>>

(* ----------------------- the periodic readings ------------------------- *)
\* The ConsumptionReading rows update_device_consumption creates carry
\* production_kwh=0.0.
device_reading_production == 0

RECURSIVE limit_exceeded_alerts(_, _, _)
\* The limit_exceeded alerts of update_device_consumption, in the order of
\* its loop.
limit_exceeded_alerts(devs, ids, generated) ==
    IF ids = <<>> THEN <<>>
    ELSE LET d == Head(ids)
             rest == limit_exceeded_alerts(devs, Tail(ids), generated)
         IN  IF generated[d] > devs[d].max_consumption
             THEN <<ConsumptionAlert(d, "limit_exceeded", "high")>> \o rest
             ELSE rest

\* update_device_consumption, generated[d] being what
\* generate_realistic_consumption returns for device d: nothing without an
\* active device; otherwise a reading and a new last_consumption for every
\* active device, and an alert where the limit is exceeded.
device_consumption_update(st, generated) ==
    LET ids == active_devices(st.devices)
    IN  IF ids = <<>> THEN st
        ELSE [st EXCEPT
                !.devices = [d \in DOMAIN @ |->
                                IF @[d].is_active
                                THEN [@[d] EXCEPT !.last_consumption = generated[d]]
                                ELSE @[d]],
                !.latest_reading = [exists |-> TRUE,
                                    production_kwh |-> device_reading_production],
                !.alerts = @ \o limit_exceeded_alerts(st.devices, ids, generated)]

\* update_solar_production, panels being what get_current_production
\* returns for each active panel: an EnergyProduction row for each of them,
\* and no ConsumptionReading row.
solar_production_update(st, panels) ==
    IF panels = <<>> THEN st
    ELSE [st EXCEPT !.energy_production =
                        [exists |-> TRUE, production_kwh |-> SumSeq(panels)]]

\* The tables the three periodic tasks read and write.
tables ==
    [devices |-> devices, latest_reading |-> latest_reading,
     alerts |-> alerts, energy_production |-> energy_production]

\* The task update_device_consumption.
update_device_consumption ==
    \E generated \in [DeviceIds -> Consumptions] :
        LET st == device_consumption_update(tables, generated)
        IN  /\ devices' = st.devices
            /\ latest_reading' = st.latest_reading
            /\ alerts' = st.alerts
            /\ run' = NoRun
            /\ UNCHANGED <<configs, energy_production, in_progress>>

\* The task update_solar_production.
update_solar_production ==
    \E panels \in PanelReadings :
        LET st == solar_production_update(tables, panels)
        IN  /\ energy_production' = st.energy_production
            /\ run' = NoRun
            /\ UNCHANGED <<devices, configs, latest_reading, alerts, in_progress>>

\* The task generate_complete_energy_reading: the consumption update, the
\* production update and the control pass, in this order.
generate_complete_energy_reading ==
    \E generated \in [DeviceIds -> Consumptions], panels \in PanelReadings, now \in Times :
        LET st1 == device_consumption_update(tables, generated)
            st2 == solar_production_update(st1, panels)
            out == control_pass(st2.devices, configs, st2.latest_reading, st2.alerts, now)
        IN  /\ devices' = out.devices
            /\ alerts' = out.alerts
            /\ latest_reading' = st2.latest_reading
            /\ energy_production' = st2.energy_production
            /\ run' = returned_run(st2.devices, st2.alerts, out)
            /\ UNCHANGED <<configs, in_progress>>

\* control_tuya_device applied to the row of device d, the call to the
\* device ending in failure.  The function saves nothing.
called_run(d, turn_on, failure, out) ==
    [status |-> "called", device |-> d, turn_on |-> turn_on, failure |-> failure,
     devices_before |-> devices, out |-> out]

control_tuya_device_call(d, turn_on, failure) ==
    /\ run' = called_run(d, turn_on, failure,
                         control_tuya_device_under(failure, devices[d], turn_on))
    /\ UNCHANGED <<devices, configs, latest_reading, alerts, energy_production, in_progress>>

(* --------------------------- specification ----------------------------- *)
\* The registered devices are of any kinds; which device carries which id
\* makes no difference to a pass, so the kinds are taken in one order.
Init ==
    /\ \E roster \in [DeviceIds -> 1..Len(Profiles)] :
          /\ \A d, e \in DeviceIds : d < e => roster[d] <= roster[e]
          /\ devices = [d \in DeviceIds |-> Device(Profiles[roster[d]])]
    /\ configs = [c \in ConfigIds |-> EnergyManagementConfig(FALSE, TRUE, DefaultThreshold)]
    /\ latest_reading = NoReading
    /\ alerts = <<>>
    /\ run = NoRun
    /\ energy_production = NoProduction
    /\ passes = [w \in Workers |-> Idle]
    /\ saves = [r \in Requests |-> Idle]
    /\ updates = [r \in Requests |-> Idle]
    /\ last_change = [d \in DeviceIds |-> NoLog]

Next ==
    \/ check_and_control_devices
    \/ \E d \in DeviceIds : toggle_active(d)
    \/ \E d \in DeviceIds, c \in Consumptions : update_consumption(d, c)
    \/ \E d \in DeviceIds, c \in Consumptions, p \in Productions : create_reading(d, c, p)
    \/ \E c \in ConfigIds, a \in BOOLEAN, e \in BOOLEAN, t \in Thresholds :
          save_config(c, EnergyManagementConfig(a, e, t))

Spec == Init /\ [][Next]_vars

\* The same requests while every configuration keeps the default threshold,
\* under which a deficit is production below consumption.
NextDefaultThreshold ==
    \/ check_and_control_devices
    \/ \E d \in DeviceIds : toggle_active(d)
    \/ \E d \in DeviceIds, c \in Consumptions : update_consumption(d, c)
    \/ \E d \in DeviceIds, c \in Consumptions, p \in Productions : create_reading(d, c, p)
    \/ \E c \in ConfigIds, a \in BOOLEAN, e \in BOOLEAN :
          save_config(c, EnergyManagementConfig(a, e, DefaultThreshold))

SpecDefaultThreshold == Init /\ [][NextDefaultThreshold]_vars

\* The periodic tasks and the command that run them, with the requests that
\* switch a device and save the configuration.
NextReadings ==
    \/ update_device_consumption
    \/ update_solar_production
    \/ generate_complete_energy_reading
    \/ check_and_control_devices
    \/ \E d \in DeviceIds : toggle_active(d)
    \/ \E c \in ConfigIds, a \in BOOLEAN, e \in BOOLEAN :
          save_config(c, EnergyManagementConfig(a, e, DefaultThreshold))

SpecReadings == Init /\ [][NextReadings]_vars

\* The passes during which the data store fails, among the requests that
\* switch a device, post a reading and save the configuration.
NextFaults ==
    \/ check_and_control_devices
    \/ check_and_control_devices_failing
    \/ \E d \in DeviceIds : toggle_active(d)
    \/ \E d \in DeviceIds, c \in Consumptions, p \in Productions : create_reading(d, c, p)
    \/ \E c \in ConfigIds, a \in BOOLEAN, e \in BOOLEAN :
          save_config(c, EnergyManagementConfig(a, e, DefaultThreshold))

SpecFaults == Init /\ [][NextFaults]_vars

\* Registered devices of one kind beside an active configuration with auto
\* control.
InitOverlap ==
    /\ \E p \in 1..Len(Profiles) : devices = [d \in DeviceIds |-> Device(Profiles[p])]
    /\ configs = [c \in ConfigIds |-> EnergyManagementConfig(TRUE, TRUE, DefaultThreshold)]
    /\ latest_reading = NoReading
    /\ alerts = <<>>
    /\ run = NoRun
    /\ energy_production = NoProduction
    /\ passes = [w \in Workers |-> Idle]
    /\ saves = [r \in Requests |-> Idle]
    /\ updates = [r \in Requests |-> Idle]
    /\ last_change = [d \in DeviceIds |-> NoLog]

\* Passes started by the schedule and on demand, each in two steps, while
\* readings are posted.
NextOverlap ==
    \/ \E w \in Workers : begin_pass(w)
    \/ \E w \in Workers : end_pass(w)
    \/ \E d \in DeviceIds, c \in Consumptions, p \in Productions : create_reading(d, c, p)

SpecOverlap == InitOverlap /\ [][NextOverlap]_vars

\* The configuration table before any configuration is created, beside one
\* registered device.
InitConfigs ==
    /\ \E p \in 1..Len(Profiles) : devices = [d \in DeviceIds |-> Device(Profiles[p])]
    /\ configs = [c \in ConfigRows |-> NoConfig]
    /\ latest_reading = NoReading
    /\ alerts = <<>>
    /\ run = NoRun
    /\ energy_production = NoProduction
    /\ passes = [w \in Workers |-> Idle]
    /\ saves = [r \in Requests |-> Idle]
    /\ updates = [r \in Requests |-> Idle]
    /\ last_change = [d \in DeviceIds |-> NoLog]

\* The fields a request sends to update a configuration: all of them, or
\* one of the two flags.
ConfigData ==
    {EnergyManagementConfig(a, e, t) : a \in BOOLEAN, e \in BOOLEAN, t \in Thresholds}
        \cup {[is_active |-> a] : a \in BOOLEAN}
        \cup {[auto_control_enabled |-> e] : e \in BOOLEAN}

\* The writes of the configuration, one at a time.
NextConfigs ==
    \/ \E c \in ConfigRows, a \in BOOLEAN, e \in BOOLEAN, t \in Thresholds :
          configs[c] # NoConfig /\ save_config(c, EnergyManagementConfig(a, e, t))
    \/ \E a \in BOOLEAN, e \in BOOLEAN, t \in Thresholds :
          serializer_create(EnergyManagementConfig(a, e, t))
    \/ \E c \in ConfigRows, data \in ConfigData : serializer_update(c, data)
    \/ \E c \in ConfigRows : activate(c)
    \/ \E e \in BOOLEAN : toggle_auto_control(e)

SpecConfigs == InitConfigs /\ [][NextConfigs]_vars

\* Configurations are created inactive, and two requests save
\* configurations as active, statement by statement.
NextConfigRace ==
    \/ \E e \in BOOLEAN, t \in Thresholds :
          serializer_create(EnergyManagementConfig(FALSE, e, t))
    \/ \E r \in Requests, c \in ConfigRows : save_deactivate(r, c)
    \/ \E r \in Requests : save_write(r)

SpecConfigRace == InitConfigs /\ [][NextConfigRace]_vars

(* ------------------------- what a pass did ----------------------------- *)
\* A pass has just returned.
Returned == run.status = "returned"

\* The pass got as far as computing the percentage and the deficit.
Computed == Returned /\ run.locals.computed

\* The pass found a deficit.
DeficitRun == Computed /\ run.locals.is_deficit

\* The alert rows the pass added.
NewAlerts == SubSeq(alerts, Len(run.alerts_before) + 1, Len(alerts))

\* The pass wrote no device row, added no alert row and made no transport call.
NoEffect ==
    /\ devices = run.devices_before
    /\ alerts = run.alerts_before
    /\ run.calls = <<>>

\* The devices that were active when the pass started.
ActiveBefore == {d \in DeviceIds : run.devices_before[d].is_active}

RECURSIVE SumOver(_, _)
SumOver(devs, S) ==
    IF S = {} THEN 0
    ELSE LET d == CHOOSE x \in S : TRUE
         IN  devs[d].last_consumption + SumOver(devs, S \ {d})

\* The consumption of the devices that were active when the pass started.
ConsumptionBefore == SumOver(run.devices_before, ActiveBefore)

\* The active configurations with auto control enabled.
EnabledConfigs ==
    {c \in ConfigIds : configs[c].is_active /\ configs[c].auto_control_enabled}

\* Fractions <<n, d>> against a whole percentage t.
Below(f, t) == f[1] < t * f[2]
Equals(f, t) == f[1] = t * f[2]

(* ------------------------------ claims --------------------------------- *)
\* C1: a pass whose production_percentage is at least the deficit threshold
\* changes no device field, creates no alert, makes no transport call and
\* reports is_deficit false, devices_controlled 0 and alerts_created 0.
C1_NoDeficitNoEffect ==
    (Computed /\ ~Below(run.locals.production_percentage, run.locals.deficit_threshold))
        => /\ NoEffect
           /\ run.report.status = "success"
           /\ run.report.is_deficit = FALSE
           /\ run.report.devices_controlled = 0
           /\ run.report.alerts_created = 0

C1_Witness ==
    /\ Computed
    /\ ~Below(run.locals.production_percentage, run.locals.deficit_threshold)
    /\ run.locals.deficit_threshold > 0
    /\ run.locals.total_consumption > 0
    /\ \E d \in ActiveBefore :
          /\ run.devices_before[d].priority = BAIXA
          /\ run.devices_before[d].is_controllable
          /\ run.devices_before[d].last_consumption > 0
    /\ run.report.status = "success"

\* C2: is_deficit is true exactly when production_percentage is strictly
\* below the active configuration's threshold; when the two are equal the
\* pass is no deficit, mutates nothing and creates no alert.
C2_DeficitIsStrictlyBelow ==
    Computed =>
        \A c \in EnabledConfigs :
            LET t == configs[c].deficit_threshold_percentage
                pct == run.locals.production_percentage
            IN  /\ run.locals.is_deficit <=> Below(pct, t)
                /\ Equals(pct, t) =>
                      /\ ~run.locals.is_deficit
                      /\ devices = run.devices_before
                      /\ alerts = run.alerts_before
                      /\ run.report.status = "success"
                      /\ run.report.is_deficit = FALSE

\* Threshold 100, production 5, active consumption 3 + 2.
C2_Witness ==
    /\ Computed
    /\ \E c \in EnabledConfigs : configs[c].deficit_threshold_percentage = 100
    /\ latest_reading.production_kwh = 5
    /\ \E d, e \in ActiveBefore :
          /\ d # e
          /\ run.devices_before[d].last_consumption = 3
          /\ run.devices_before[d].priority = BAIXA
          /\ run.devices_before[d].is_controllable
          /\ run.devices_before[e].last_consumption = 2
          /\ run.devices_before[e].priority = MEDIA
    /\ ConsumptionBefore = 5
    /\ ~run.locals.is_deficit
    /\ alerts = run.alerts_before

\* C3: the production_percentage of a pass is exactly 100 when the
\* last_consumption of the active devices sums to 0, whatever the
\* production, and otherwise total_production / total_consumption * 100,
\* total_consumption being the sum over the active devices only.
C3_ProductionPercentage ==
    Computed =>
        LET pct == run.locals.production_percentage
            production == latest_reading.production_kwh
        IN  /\ run.locals.total_consumption = ConsumptionBefore
            /\ ConsumptionBefore = 0 => pct = <<100, 1>>
            /\ ConsumptionBefore > 0 =>
                  pct[1] * ConsumptionBefore = production * 100 * pct[2]
            /\ run.report.status = "success" => run.report.production_percentage = pct

\* No consumption among the active devices, while an inactive device
\* consumes and production is not zero.
C3_Witness ==
    /\ Computed
    /\ ConsumptionBefore = 0
    /\ ActiveBefore # {}
    /\ \E d \in DeviceIds \ ActiveBefore : run.devices_before[d].last_consumption > 0
    /\ latest_reading.production_kwh = 4
    /\ run.report.status = "success"
    /\ run.report.production_percentage = <<100, 1>>

Reachable(d) == control_tuya_device(run.devices_before[d], FALSE)

\* The number of new alerts of a type and severity that reference device d.
NewAlertsFor(d, alert_type, severity) ==
    Cardinality({i \in DOMAIN NewAlerts :
                    NewAlerts[i] = ConsumptionAlert(d, alert_type, severity)})

\* C5: after a deficit pass every device that was active, BAIXA and
\* controllable, and that the transport turned off, is inactive and
\* auto_controlled with its auto_control_timestamp set, and the pass created
\* exactly one device_auto_controlled alert of severity medium for it.
C5_ControllableBaixaShutOff ==
    DeficitRun =>
        \A d \in ActiveBefore :
            (/\ run.devices_before[d].priority = BAIXA
             /\ run.devices_before[d].is_controllable
             /\ Reachable(d))
                => /\ ~devices[d].is_active
                   /\ devices[d].auto_controlled
                   /\ devices[d].auto_control_timestamp # NoTimestamp
                   /\ NewAlertsFor(d, "device_auto_controlled", "medium") = 1

\* C6: after a deficit pass every device that was active, BAIXA and not
\* controllable is still active, is auto_controlled with its
\* auto_control_timestamp set, has exactly one device_auto_controlled alert
\* from the pass, and the transport was not called for it.
C6_UncontrollableBaixaFlagged ==
    DeficitRun =>
        \A d \in ActiveBefore :
            (/\ run.devices_before[d].priority = BAIXA
             /\ ~run.devices_before[d].is_controllable)
                => /\ devices[d].is_active
                   /\ devices[d].auto_controlled
                   /\ devices[d].auto_control_timestamp # NoTimestamp
                   /\ NewAlertsFor(d, "device_auto_controlled", "medium") = 1
                   /\ \A i \in DOMAIN run.calls : run.calls[i].device # d

\* C7: in a deficit pass every active MEDIA device gets exactly one
\* medium_priority_action_needed alert of severity high, none of its fields
\* is changed and the transport is not called for it.
C7_MediaAlertedOnly ==
    DeficitRun =>
        \A d \in ActiveBefore :
            run.devices_before[d].priority = MEDIA
                => /\ NewAlertsFor(d, "medium_priority_action_needed", "high") = 1
                   /\ devices[d] = run.devices_before[d]
                   /\ \A i \in DOMAIN run.calls : run.calls[i].device # d

\* C8: no pass, deficit or not, changes a field of an ALTA device, calls the
\* transport for it or creates an alert that references it.
C8_AltaUntouched ==
    Returned =>
        \A d \in DeviceIds :
            run.devices_before[d].priority = ALTA
                => /\ devices[d] = run.devices_before[d]
                   /\ \A i \in DOMAIN run.calls : run.calls[i].device # d
                   /\ \A i \in DOMAIN NewAlerts : NewAlerts[i].device # d

\* A pass that found a deficit while an ALTA device was active and consuming.
C8_Witness ==
    /\ DeficitRun
    /\ \E d \in ActiveBefore :
          /\ run.devices_before[d].priority = ALTA
          /\ run.devices_before[d].last_consumption > 0
    /\ \E d \in ActiveBefore : run.devices_before[d].priority = BAIXA

\* C9: without an active configuration, or with auto_control_enabled false
\* in the active one, a pass returns status skipped with devices_controlled
\* 0 and alerts_created 0, and writes no device, creates no alert and makes
\* no transport call, whatever the readings and the devices.
C9_SkippedWithoutAutoControl ==
    (Returned /\ EnabledConfigs = {})
        => /\ run.report.status = "skipped"
           /\ run.report.devices_controlled = 0
           /\ run.report.alerts_created = 0
           /\ NoEffect

\* Auto control is switched off in the active configuration while
\* production is zero and an active BAIXA device consumes.
C9_Witness ==
    /\ Returned
    /\ \E c \in ConfigIds :
          /\ configs[c].is_active
          /\ ~configs[c].auto_control_enabled
          /\ configs[c].deficit_threshold_percentage = 100
    /\ latest_reading # NoReading
    /\ latest_reading.production_kwh = 0
    /\ \E d \in ActiveBefore :
          /\ run.devices_before[d].priority = BAIXA
          /\ run.devices_before[d].last_consumption > 0
    /\ run.report.status = "skipped"

\* C10: while there is no reading yet, a pass returns status skipped, not
\* error, declares no deficit, writes no device and creates no alert.
C10_SkippedWithoutReadings ==
    (Returned /\ latest_reading = NoReading)
        => /\ run.report.status = "skipped"
           /\ ~run.locals.computed
           /\ NoEffect

\* Auto control is on, devices consume, and nothing has been read yet.
C10_Witness ==
    /\ Returned
    /\ EnabledConfigs # {}
    /\ latest_reading = NoReading
    /\ \E d \in ActiveBefore :
          /\ run.devices_before[d].priority = BAIXA
          /\ run.devices_before[d].last_consumption > 0
    /\ run.report = skipped_readings_report

\* C11: the total_production a pass compares against the consumption is the
\* production recorded by the latest production update, whatever device
\* readings were written since.
C11_UsesLatestProduction ==
    (Computed /\ energy_production # NoProduction)
        => run.locals.total_production = energy_production.production_kwh

\* The device rows as they are for a pass when device d is not there: every
\* query of the pass filters on is_active.
Without(devs, d) == [devs EXCEPT ![d].is_active = FALSE]

\* The active controllable BAIXA devices the transport answers false for.
FailingBefore ==
    {d \in ActiveBefore :
        /\ run.devices_before[d].priority = BAIXA
        /\ run.devices_before[d].is_controllable
        /\ ~Reachable(d)}

\* Device e was handled by the pass as its priority asks.
Processed(e) ==
    /\ (run.devices_before[e].priority = BAIXA /\ e \notin FailingBefore)
          => /\ devices[e].auto_controlled
             /\ NewAlertsFor(e, "device_auto_controlled", "medium") = 1
    /\ run.devices_before[e].priority = MEDIA
          => NewAlertsFor(e, "medium_priority_action_needed", "high") = 1

\* C12: in a deficit pass, an active controllable BAIXA device the transport
\* answers false for keeps is_active, auto_controlled and
\* auto_control_timestamp, gets no device_auto_controlled alert, the pass is
\* not aborted and every other active BAIXA and MEDIA device is processed.
C12_TransportFailureIsSoft ==
    DeficitRun =>
        \A d \in FailingBefore :
            /\ devices[d] = run.devices_before[d]
            /\ NewAlertsFor(d, "device_auto_controlled", "medium") = 0
            /\ run.report.status = "success"
            /\ \A e \in ActiveBefore \ {d} : Processed(e)

\* C13: the report of a deficit pass in which the transport answered false
\* for a device differs from the report of the same pass without that device.
C13_TransportFailureReported ==
    DeficitRun =>
        \A d \in FailingBefore, now \in Times :
            run.report # control_pass(Without(run.devices_before, d), configs,
                                      latest_reading, run.alerts_before, now).report

\* The new alerts of type deficit_detected.
NewDeficitAlerts ==
    {i \in DOMAIN NewAlerts : NewAlerts[i].alert_type = "deficit_detected"}

\* C19: a deficit pass creates exactly one deficit_detected alert, of
\* severity high and without a device, and goes on to the BAIXA and MEDIA
\* devices; any other pass creates no deficit_detected alert.
C19_OneSystemWideDeficitAlert ==
    Returned =>
        IF DeficitRun
        THEN /\ Cardinality(NewDeficitAlerts) = 1
             /\ NewAlertsFor(NoDevice, "deficit_detected", "high") = 1
             /\ ~run.raised
             /\ \A e \in ActiveBefore : Processed(e)
        ELSE NewDeficitAlerts = {}

\* The fields of the report the spec gives, with status and message.
ReportFields ==
    {"status", "message", "is_deficit", "production_percentage",
     "deficit_threshold", "devices_controlled", "alerts_created"}

\* C20: the report of a pass has the same fields whether the pass succeeded,
\* was skipped or failed: is_deficit, production_percentage,
\* deficit_threshold, devices_controlled, alerts_created, status and message.
C20_SameReportShape ==
    Returned => ReportFields \subseteq DOMAIN run.report

C15_NeverPropagates ==
    run.status \in {"returned", "propagated"}
        => /\ run.status = "returned"
           /\ run.report.status \in {"success", "skipped", "error"}
           /\ "message" \in DOMAIN run.report
           /\ run.raised => run.report.status = "error"

\* The data store failed while the pass read the devices.
C15_Witness ==
    /\ Returned
    /\ run.raised
    /\ run.exception = "OperationalError"
    /\ EnabledConfigs # {}
    /\ latest_reading # NoReading
    /\ ~run.locals.computed
    /\ run.report.status = "error"

\* The workers whose pass is between its first read and its last write: it
\* has read the tables, found a deficit and has its writes still to do.
PassesInProgress ==
    {w \in Workers :
        /\ passes[w] # Idle
        /\ passes[w].seen.outcome = "goes on"
        /\ passes[w].seen.locals.is_deficit}

\* C16: at any moment at most one pass is between its first read and its
\* last write, however the schedule and the on-demand triggers overlap.
C16_PassesSerialized == Cardinality(PassesInProgress) <= 1

\* C17: after any sequence of writes of the configuration made one at a
\* time at most one configuration is active, and a write that saves a
\* configuration as active leaves it the only active one.
C17_SingleActiveConfig ==
    /\ Cardinality(active_config_ids(configs)) <= 1
    /\ (run.status = "saved" /\ run.saved_active)
          => active_config_ids(configs) = {run.config}

\* A configuration has just been saved as active while another one was.
C17_Witness ==
    /\ run.status = "saved"
    /\ run.saved_active
    /\ run.others_active # {}
    /\ active_config_ids(configs) = {run.config}
    /\ \A c \in run.others_active : ~configs[c].is_active

\* C18: at most one configuration is active at any time, also while two
\* requests that save two configurations as active interleave.
C18_SingleActiveConfigInterleaved ==
    Cardinality(active_config_ids(configs)) <= 1

(* --------------------------- the transport ----------------------------- *)
\* control_tuya_device on every device of every roster, for both commands,
\* the call to the device going through or failing.
NextTransport ==
    \/ \E d \in DeviceIds, turn_on \in BOOLEAN,
          failure \in TransportFailures \cup {NoException} :
          control_tuya_device_call(d, turn_on, failure)
    \/ \E d \in DeviceIds : toggle_active(d)

SpecTransport == Init /\ [][NextTransport]_vars

Called == run.status = "called"

\* C21: control_tuya_device lets no exception out: for a device that is not
\* a Tuya device it returns False, a call to the device that raises is
\* turned into False, and the device is left with every field as it was,
\* in the instance and in the table.
C21_TransportNeverRaises ==
    Called =>
        /\ ~run.out.propagated
        /\ run.devices_before[run.device].device_type # "tuya" => run.out.value = FALSE
        /\ run.failure # NoException => run.out.value = FALSE
        /\ run.out.device = run.devices_before[run.device]
        /\ devices = run.devices_before

\* The call to an active Tuya device has raised and the function has
\* returned False.
C21_Witness ==
    /\ Called
    /\ run.devices_before[run.device].device_type = "tuya"
    /\ run.devices_before[run.device].is_active
    /\ run.failure # NoException
    /\ ~run.out.propagated /\ run.out.value = FALSE

(* ------------------------- repeated passes ----------------------------- *)
\* C22: a pass run again on what a pass has left (the same configuration,
\* the same latest reading, the same answers of the transport) leaves every
\* device's is_active and auto_controlled as the first pass left them.
C22_SecondRunKeepsFlags ==
    Returned =>
        \A now \in Times :
            LET again == control_pass(devices, configs, latest_reading, alerts, now)
            IN  \A d \in DeviceIds :
                    /\ again.devices[d].is_active = devices[d].is_active
                    /\ again.devices[d].auto_controlled = devices[d].auto_controlled

\* A pass has found a deficit with an active BAIXA device the transport
\* reaches, and a second pass on what it left finds the deficit again.
C22_Witness ==
    /\ DeficitRun
    /\ \E d \in ActiveBefore :
          /\ run.devices_before[d].priority = BAIXA
          /\ run.devices_before[d].is_controllable
          /\ Reachable(d)
    /\ \E now \in Times :
          LET again == control_pass(devices, configs, latest_reading, alerts, now)
          IN  again.locals.computed /\ again.locals.is_deficit

(* ----------------------- the transport in a pass ----------------------- *)
\* The active controllable BAIXA devices the pass found.
ControllableBaixaBefore ==
    {d \in ActiveBefore : /\ run.devices_before[d].priority = BAIXA
                          /\ run.devices_before[d].is_controllable}

\* The calls of the transport the pass made for device d.
CallsFor(d) == {i \in 1..Len(run.calls) : run.calls[i].device = d}

\* C23: a pass that finds a deficit calls the transport exactly once, with
\* turn_on = False, for each active controllable BAIXA device; no pass calls
\* it with turn_on = True, for any other device, or without a deficit.
C23_TransportOncePerControllableBaixa ==
    Returned =>
        /\ \A i \in 1..Len(run.calls) :
              /\ ~run.calls[i].turn_on
              /\ run.calls[i].device \in ControllableBaixaBefore
              /\ DeficitRun
        /\ DeficitRun =>
              \A d \in ControllableBaixaBefore : Cardinality(CallsFor(d)) = 1

(* --------------------- the order inside the loop ----------------------- *)
\* The active BAIXA devices the pass found and has to change: the ones
\* that are not controllable, and the controllable ones the transport
\* reaches.
HandledBaixaBefore ==
    {d \in ActiveBefore :
        /\ run.devices_before[d].priority = BAIXA
        /\ run.devices_before[d].is_controllable => Reachable(d)}

\* The places of the events of one kind for device d in what the pass did.
EventsOf(kind, d) ==
    {i \in 1..Len(run.events) : run.events[i] = event(kind, d)}

MediaBefore == {d \in ActiveBefore : run.devices_before[d].priority = MEDIA}

C28_SoftFailedDeviceRetried ==
    DeficitRun =>
        /\ \A d \in FailingBefore : CallsFor(d) # {} /\ devices[d].is_active
        /\ \A d \in ControllableBaixaBefore : Reachable(d) => ~devices[d].is_active
        /\ \A d \in DeviceIds \ ActiveBefore :
              /\ CallsFor(d) = {}
              /\ \A i \in 1..Len(NewAlerts) : NewAlerts[i].device # d

(* ------------------- the controller and the requests ------------------- *)
\* Devices of one kind that nobody has switched yet, under an active
\* configuration with auto control and with a reading of the devices, which
\* carries no production; the history is kept.
InitManual ==
    /\ \E p \in 1..Len(Profiles) : devices = [d \in DeviceIds |-> Device(Profiles[p])]
    /\ configs = [c \in ConfigIds |-> EnergyManagementConfig(TRUE, TRUE, DefaultThreshold)]
    /\ latest_reading = [exists |-> TRUE, production_kwh |-> device_reading_production]
    /\ alerts = <<>>
    /\ run = NoRun
    /\ energy_production = NoProduction
    /\ passes = [w \in Workers |-> Idle]
    /\ saves = [r \in Requests |-> Idle]
    /\ updates = [r \in Requests |-> Idle]
    /\ last_change = [d \in DeviceIds |-> "nobody"]

\* Passes of the controller among the requests that switch a device and
\* set its consumption.
NextManual ==
    \/ check_and_control_devices
    \/ \E d \in DeviceIds : toggle_active(d)
    \/ \E d \in DeviceIds, action \in {"on", "off"} : control(d, action)
    \/ \E d \in DeviceIds, c \in Consumptions : update_consumption(d, c)

SpecManual == InitManual /\ [][NextManual]_vars

C27_FlagIffTimestamp ==
    \A d \in DeviceIds :
        devices[d].auto_controlled <=> devices[d].auto_control_timestamp # NoTimestamp

\* A control request has just switched off an active BAIXA device, under a
\* deficit (a reading without production, a consumption above 0), and the
\* device is left with the flag and the timestamp both cleared.
C27_Witness ==
    /\ run.status = "controlled" /\ run.code = 200 /\ ~run.turn_on
    /\ run.devices_before[run.device].is_active
    /\ run.devices_before[run.device].priority = BAIXA
    /\ latest_reading # NoReading /\ latest_reading.production_kwh = 0
    /\ total_consumption(run.devices_before) > 0
    /\ ~devices[run.device].is_active
    /\ ~devices[run.device].auto_controlled
    /\ devices[run.device].auto_control_timestamp = NoTimestamp

(* ------------------ a pass among consumption updates ------------------- *)
\* Devices of one kind under an active configuration with auto control and
\* with a reading of the devices, which carries no production.
InitInterleaved ==
    /\ \E p \in 1..Len(Profiles) : devices = [d \in DeviceIds |-> Device(Profiles[p])]
    /\ configs = [c \in ConfigIds |-> EnergyManagementConfig(TRUE, TRUE, DefaultThreshold)]
    /\ latest_reading = [exists |-> TRUE, production_kwh |-> device_reading_production]
    /\ alerts = <<>>
    /\ run = NoRun
    /\ energy_production = NoProduction
    /\ passes = [w \in Workers |-> Idle]
    /\ saves = [r \in Requests |-> Idle]
    /\ updates = [r \in Requests |-> Idle]
    /\ last_change = [d \in DeviceIds |-> NoLog]

\* The consumption an update_consumption request sends.
SentConsumption == CHOOSE c \in Consumptions : \A o \in Consumptions : o <= c

\* A pass of the scheduled worker, step by step, while the periodic task
\* update_device_consumption runs and an update_consumption request reads
\* and saves its device.
NextInterleaved ==
    \/ begin_pass("beat")
    \/ continue_pass("beat")
    \/ update_device_consumption
    \/ \E d \in DeviceIds : update_consumption_get_object("first", d, SentConsumption)
    \/ update_consumption_save("first")

SpecInterleaved == InitInterleaved /\ [][NextInterleaved]_vars

\* A pass of the scheduled worker, step by step, while devices are switched
\* by toggle_active and an update_consumption request reads and saves its
\* device.
NextShutOff ==
    \/ begin_pass("beat")
    \/ continue_pass("beat")
    \/ \E d \in DeviceIds : toggle_active(d)
    \/ \E d \in DeviceIds : update_consumption_get_object("first", d, SentConsumption)
    \/ update_consumption_save("first")

SpecShutOff == InitInterleaved /\ [][NextShutOff]_vars

\* The Device table as the next step of a pass would leave it: a pass
\* started now and run to its end, or the pass in progress going one step on.
AfterPassStep ==
    {control_pass(devices, configs, latest_reading, alerts, now).devices : now \in Times}
        \cup {pass_step(passes[w], devices, alerts, now).devices :
                  w \in {v \in Workers : passes[v] # Idle}, now \in Times}

\* The Device table as a run of update_device_consumption would leave it.
AfterConsumptionTask ==
    {device_consumption_update(tables, generated).devices :
        generated \in [DeviceIds -> Consumptions]}

\* The Device table as the save of an update_consumption request in
\* progress would leave it.
AfterConsumptionRequest ==
    {update_consumption_saved(devices, updates[r]) :
        r \in {q \in Requests : updates[q] # Idle}}

====
